---- MODULE Spec2Model ----
(***************************************************************************)
(* Messaging subsystem of umbrella-backend: the chat directory, the        *)
(* message engine and the chat routes of app/crud.py and                   *)
(* app/routes/chats.py, as a state machine over the database tables.       *)
(*                                                                         *)
(* Every handler runs in its own database session.  A handler that reads   *)
(* and then inserts (create_or_get_chat, the /chat/create route, the       *)
(* chat-request route, react_to_message, remove_reaction) is two steps,    *)
(* its queries and its commit, so that two requests can interleave the     *)
(* way two worker threads of the server do.  The other handlers are one    *)
(* step.                                                                   *)
(***************************************************************************)
EXTENDS Integers, FiniteSets, Sequences, Bags, TLC

\* ---------------------------------------------------------------- bounds
NumUsers == 3       \* rows of the users table
MaxChats == 2       \* Chat rows ever inserted
MaxRequests == 1    \* ChatRequest rows ever inserted
MaxMessages == 2    \* Message rows ever inserted
MaxReactions == 2   \* Reaction rows ever inserted
MaxHides == 2       \* MessageVisibility rows ever inserted
MaxSessions == 2    \* requests in flight at the same time
MaxBlocks == 1      \* BlockedUser rows at the same time
MaxClock == 3       \* readings of datetime.utcnow() by the message engine
MaxGroups == 1      \* groups
MaxSockets == 3     \* WebSocket connections ever opened on /chat/ws
MaxBroadcasts == 2  \* calls of broadcast_to_chat

\* ------------------------------------------------------------- constants
None == 0                        \* Python None / SQL NULL in an id column
NoText == <<"NULL">>             \* SQL NULL in a text column
Users == 1..NumUsers
NoSuchUser == NumUsers + 1       \* an id with no row in users
PrivateUsers == {2}              \* users whose account_type is PRIVATE
ChatIds == 1..MaxChats
NoSuchChat == MaxChats + 1       \* a chat id with no row in chats
GroupIds == 1..MaxGroups
MessageIds == 1..MaxMessages

\* Text is a sequence of characters, so that ilike can be computed.
Contents == { <<"h", "i">>, <<"Y", "o">> }
MessageDeleted == <<"[", "d", "e", "l", "]">>   \* "[Message deleted]"
Emojis == { "up", "heart" }

\* The bodies a client sends: a text, and a picture without text.
Payloads ==
    { [ content |-> <<"h", "i">>, media_url |-> NoText, message_type |-> "text" ],
      [ content |-> NoText, media_url |-> <<"u">>, message_type |-> "image" ] }

\* schemas.MessageCreate: exactly one of chat_id and group_id is set.
MessageCreates ==
    { [ chat_id |-> c, group_id |-> None, content |-> p.content,
        media_url |-> p.media_url, message_type |-> p.message_type ] :
        c \in ChatIds \cup { NoSuchChat }, p \in Payloads }
    \cup
    { [ chat_id |-> None, group_id |-> g, content |-> p.content,
        media_url |-> p.media_url, message_type |-> p.message_type ] :
        g \in GroupIds, p \in Payloads }

VARIABLES
    chats,               \* table chats
    chat_requests,       \* table chat_requests
    blocked_users,       \* table blocked_users: <<blocker, blocked>>
    group_members,       \* table group_members: <<group_id, user_id>>
    messages,            \* table messages
    message_visibility,  \* table message_visibility: <<message_id, user_id>>
    reactions,           \* table reactions
    next_id,             \* fresh primary keys, per table
    now,                 \* datetime.utcnow()
    sessions,            \* the requests in flight, between query and commit
    last,                \* the response of the request that completed last
    active_connections,  \* ConnectionManager.active_connections: user -> socket
    chat_subscribers,    \* ConnectionManager.chat_subscribers: chat -> users
    websockets,          \* the sockets and their websocket_endpoint coroutines
    broadcasts,          \* calls of broadcast_to_chat so far
    delivered            \* what send_json has put on which socket

\* The realtime fan-out: the connection registry and the sockets.
ws == << active_connections, chat_subscribers, websockets, broadcasts, delivered >>

vars == << chats, chat_requests, blocked_users, group_members, messages,
           message_visibility, reactions, next_id, now, sessions, last, ws >>

dbChat == << chats, chat_requests >>
dbMsg == << messages, message_visibility, reactions, now >>

\* ------------------------------------------------------------- responses
\* What the handler that completed last gave back: the status of the response
\* ("ok", or the status_code of the HTTPException, or the exception), the detail
\* of an HTTPException, and the id of the row that was returned.
Response(op, status, value) ==
    [ op |-> op, status |-> status, detail |-> "", value |-> value ]

Refusal(op, status, detail) ==
    [ op |-> op, status |-> status, detail |-> detail, value |-> None ]

Session(pc, user_id, id, arg) ==
    [ pc |-> pc, user_id |-> user_id, id |-> id, arg |-> arg, row |-> None ]

\* A handler in flight that holds the row its query loaded.
SessionOn(pc, user_id, id, arg, row) ==
    [ pc |-> pc, user_id |-> user_id, id |-> id, arg |-> arg, row |-> row ]

\* ---------------------------------------------------------------- queries
\* Chat rows of the unordered pair: the or_(and_(..), and_(..)) filter.
ChatsOfPair(a, b) ==
    { c \in chats : \/ (c.user1_id = a /\ c.user2_id = b)
                    \/ (c.user1_id = b /\ c.user2_id = a) }

ChatById(chat_id) == { c \in chats : c.id = chat_id }

MessageById(message_id) == { m \in messages : m.id = message_id }

ReactionsOf(message_id, user_id) ==
    { r \in reactions : r.message_id = message_id /\ r.user_id = user_id }

NewChat(id, user1_id, user2_id) ==
    [ id |-> id, user1_id |-> user1_id, user2_id |-> user2_id,
      is_accepted |-> TRUE, blocked_by |-> None ]

\* BlockRegistry.IsBlocked: a block in either direction.
is_blocked(a, b) == << a, b >> \in blocked_users \/ << b, a >> \in blocked_users

\* A handler between its queries and its commit, and the handlers in flight.
Start(r) ==
    /\ BagCardinality(sessions) < MaxSessions
    /\ sessions' = sessions (+) SetToBag({r})

Finish(r) == sessions' = sessions (-) SetToBag({r})

\* Chat rows that the handlers in flight are about to insert.
ChatInserts ==
    LET pending == { r \in BagToSet(sessions) :
                       \/ r.pc = "create_or_get_chat"
                       \/ (r.pc = "create_or_request_chat" /\ r.arg = "chat")
                       \/ (r.pc = "handle_chat_request_action" /\ r.arg = "accept") }
    IN  BagCardinality([ r \in pending |-> sessions[r] ])

\* ---------------------------------------------------------- chat directory
\* crud.create_or_get_chat, lines 466-477: the guard and the lookup.
create_or_get_chat_query(user_id, target_user_id) ==
    /\ IF user_id = target_user_id
       THEN /\ last' = Response("create_or_get_chat", "ValueError", None)
            /\ UNCHANGED sessions
       ELSE IF ChatsOfPair(user_id, target_user_id) # {}
       THEN \E chat \in ChatsOfPair(user_id, target_user_id) :   \* .first()
                /\ last' = Response("create_or_get_chat", "ok", chat.id)
                /\ UNCHANGED sessions
       ELSE /\ next_id.chat + ChatInserts <= MaxChats
            /\ Start(Session("create_or_get_chat", user_id, target_user_id, ""))
            /\ UNCHANGED last
    /\ UNCHANGED << dbChat, dbMsg, blocked_users, group_members, ws, next_id >>

\* crud.create_or_get_chat, lines 479-489: the insert and the commit.
create_or_get_chat_commit(r) ==
    /\ r \in BagToSet(sessions) /\ r.pc = "create_or_get_chat"
    /\ chats' = chats \cup { NewChat(next_id.chat, r.user_id, r.id) }
    /\ next_id' = [ next_id EXCEPT !.chat = @ + 1 ]
    /\ last' = Response("create_or_get_chat", "ok", next_id.chat)
    /\ Finish(r)
    /\ UNCHANGED << chat_requests, dbMsg, blocked_users, group_members, ws >>

\* routes/chats.py create_or_request_chat, lines 78-95: the checks and queries.
create_or_request_chat_query(current_user, target_user_id) ==
    LET respond(status, value) ==
            /\ last' = Response("create_or_request_chat", status, value)
            /\ UNCHANGED sessions
    IN
    /\ IF target_user_id = current_user
       THEN respond("400", None)
       ELSE IF ChatsOfPair(current_user, target_user_id) # {}
       THEN \E existing \in ChatsOfPair(current_user, target_user_id) :
                respond("ok", existing.id)
       ELSE IF target_user_id \notin Users
       THEN respond("404", None)
       ELSE IF target_user_id \in PrivateUsers
       THEN IF \E q \in chat_requests : /\ q.sender_id = current_user
                                        /\ q.recipient_id = target_user_id
                                        /\ q.status = "pending"
            THEN respond("ok", None)
            ELSE /\ next_id.request <= MaxRequests
                 /\ \A r \in BagToSet(sessions) :
                        ~(r.pc = "create_or_request_chat" /\ r.arg = "request")
                 /\ Start(Session("create_or_request_chat", current_user,
                                  target_user_id, "request"))
                 /\ UNCHANGED last
       ELSE /\ next_id.chat + ChatInserts <= MaxChats
            /\ Start(Session("create_or_request_chat", current_user,
                             target_user_id, "chat"))
            /\ UNCHANGED last
    /\ UNCHANGED << dbChat, dbMsg, blocked_users, group_members, ws, next_id >>

\* routes/chats.py create_or_request_chat, lines 96-104: the insert and commit.
create_or_request_chat_commit(r) ==
    /\ r \in BagToSet(sessions) /\ r.pc = "create_or_request_chat"
    /\ IF r.arg = "request"
       THEN /\ chat_requests' = chat_requests \cup
                   { [ id |-> next_id.request, sender_id |-> r.user_id,
                       recipient_id |-> r.id, status |-> "pending" ] }
            /\ next_id' = [ next_id EXCEPT !.request = @ + 1 ]
            /\ last' = Response("create_or_request_chat", "ok", None)
            /\ UNCHANGED chats
       ELSE /\ chats' = chats \cup { NewChat(next_id.chat, r.user_id, r.id) }
            /\ next_id' = [ next_id EXCEPT !.chat = @ + 1 ]
            /\ last' = Response("create_or_request_chat", "ok",
                                next_id.chat)
            /\ UNCHANGED chat_requests
    /\ Finish(r)
    /\ UNCHANGED << dbMsg, blocked_users, group_members, ws >>

\* routes/chats.py handle_chat_request_action, lines 113-117: the checks.
handle_chat_request_action_query(request_id, action, current_user) ==
    LET req == { q \in chat_requests : q.id = request_id }
        respond(status) ==
            /\ last' = Response("handle_chat_request_action", status, None)
            /\ UNCHANGED sessions
    IN
    /\ IF req = {} \/ (\E q \in req : q.recipient_id # current_user)
       THEN respond("403")
       ELSE IF \E q \in req : q.status # "pending"
       THEN respond("400")
       ELSE IF action \in { "accept", "decline" }
       THEN /\ action = "accept" => next_id.chat + ChatInserts <= MaxChats
            /\ Start(Session("handle_chat_request_action", current_user,
                             request_id, action))
            /\ UNCHANGED last
       ELSE respond("ok")
    /\ UNCHANGED << dbChat, dbMsg, blocked_users, group_members, ws, next_id >>

\* routes/chats.py handle_chat_request_action, lines 119-129: the writes.
handle_chat_request_action_commit(r) ==
    /\ r \in BagToSet(sessions) /\ r.pc = "handle_chat_request_action"
    /\ \E q \in chat_requests :
        /\ q.id = r.id
        /\ IF r.arg = "accept"
           THEN /\ chat_requests' = (chat_requests \ {q}) \cup
                                        { [ q EXCEPT !.status = "accepted" ] }
                /\ chats' = chats \cup
                                { NewChat(next_id.chat, q.sender_id, q.recipient_id) }
                /\ next_id' = [ next_id EXCEPT !.chat = @ + 1 ]
                /\ last' = Response("handle_chat_request_action", "ok", next_id.chat)
           ELSE /\ chat_requests' = (chat_requests \ {q}) \cup
                                        { [ q EXCEPT !.status = "declined" ] }
                /\ last' = Response("handle_chat_request_action", "ok", None)
                /\ UNCHANGED << chats, next_id >>
    /\ Finish(r)
    /\ UNCHANGED << dbMsg, blocked_users, group_members, ws >>

\* The rows that go with a deleted Chat: its messages and their reactions.
delete_chat(chat) ==
    LET gone == { m.id : m \in { n \in messages : n.chat_id = chat.id } }
    IN  /\ chats' = chats \ {chat}
        /\ messages' = { m \in messages : m.id \notin gone }
        /\ reactions' = { x \in reactions : x.message_id \notin gone }

\* handle_chat_request without the check of the participants.
handle_chat_request_by_anyone(chat_id, current_user_id, action) ==
    LET respond(status, value) ==
            last' = Response("handle_chat_request", status, value)
        fail(status) ==
            /\ respond(status, None)
            /\ UNCHANGED << chats, messages, reactions >>
        update(chat, row) ==
            /\ chats' = (chats \ {chat}) \cup {row}
            /\ respond("ok", chat.id)
            /\ UNCHANGED << messages, reactions >>
    IN
    /\ IF ChatById(chat_id) = {}
       THEN fail("404")
       ELSE \E chat \in ChatById(chat_id) :
            IF action = "accept"
            THEN update(chat, [ chat EXCEPT !.is_accepted = TRUE, !.blocked_by = None ])
            ELSE IF action = "decline"
            THEN delete_chat(chat) /\ respond("ok", None)
            ELSE IF action = "block"
            THEN update(chat, [ chat EXCEPT !.blocked_by = current_user_id ])
            ELSE fail("400")
    /\ UNCHANGED << chat_requests, blocked_users, group_members, ws,
                    message_visibility, now, next_id, sessions >>

\* crud.handle_chat_request, lines 493-515.
handle_chat_request(chat_id, current_user_id, action) ==
    LET respond(status, value) ==
            last' = Response("handle_chat_request", status, value)
        fail(status) ==
            /\ respond(status, None)
            /\ UNCHANGED << chats, messages, reactions >>
        update(chat, row) ==
            /\ chats' = (chats \ {chat}) \cup {row}
            /\ respond("ok", chat.id)
            /\ UNCHANGED << messages, reactions >>
    IN
    /\ IF ChatById(chat_id) = {}
       THEN fail("404")
       ELSE \E chat \in ChatById(chat_id) :
            IF current_user_id \notin { chat.user1_id, chat.user2_id }
            THEN fail("403")
            ELSE IF action = "accept"
            THEN update(chat, [ chat EXCEPT !.is_accepted = TRUE, !.blocked_by = None ])
            ELSE IF action = "decline"
            THEN delete_chat(chat) /\ respond("ok", None)
            ELSE IF action = "block"
            THEN update(chat, [ chat EXCEPT !.blocked_by = current_user_id ])
            ELSE fail("400")
    /\ UNCHANGED << chat_requests, blocked_users, group_members, ws,
                    message_visibility, now, next_id, sessions >>

\* crud.get_user_chats, lines 517-528: the rows, newest first.  Chat ids are
\* handed out in the order of created_at.
get_user_chats_rows(user_id) ==
    { c \in chats :
        /\ (c.user1_id = user_id \/ c.user2_id = user_id)
        /\ c.is_accepted = TRUE
        /\ (c.blocked_by = None \/ c.blocked_by # user_id) }

RECURSIVE NewestFirst(_)
NewestFirst(rows) ==
    IF rows = {} THEN << >>
    ELSE LET top == CHOOSE c \in rows : \A d \in rows : d.id <= c.id
         IN  << top >> \o NewestFirst(rows \ {top})

get_user_chats(user_id) == NewestFirst(get_user_chats_rows(user_id))

\* routes/block.py block_user with crud.block_user.
block_user(current_user, blocked_id) ==
    /\ IF blocked_id \notin Users
       THEN /\ last' = Response("block_user", "404", None)
            /\ UNCHANGED blocked_users
       ELSE IF blocked_id = current_user
       THEN /\ last' = Response("block_user", "400", None)
            /\ UNCHANGED blocked_users
       ELSE /\ Cardinality(blocked_users \cup { << current_user, blocked_id >> })
                  <= MaxBlocks
            /\ blocked_users' = blocked_users \cup { << current_user, blocked_id >> }
            /\ last' = Response("block_user", "ok", None)
    /\ UNCHANGED << dbChat, dbMsg, group_members, ws, next_id, sessions >>

\* routes/block.py unblock_user with crud.unblock_user.
unblock_user(current_user, blocked_id) ==
    /\ IF blocked_id \notin Users
       THEN /\ last' = Response("unblock_user", "404", None)
            /\ UNCHANGED blocked_users
       ELSE /\ blocked_users' = blocked_users \ { << current_user, blocked_id >> }
            /\ last' = Response("unblock_user", "ok", None)
    /\ UNCHANGED << dbChat, dbMsg, group_members, ws, next_id, sessions >>

\* ----------------------------------------------------------- message engine
HidesOf(message_id, user_id) ==
    { v \in message_visibility : v.message_id = message_id /\ v.user_id = user_id }

\* Rows that the handlers in flight are about to insert.
PendingInserts(pc) ==
    LET pending == { r \in BagToSet(sessions) : r.pc = pc /\ r.row = None }
    IN  BagCardinality([ r \in pending |-> sessions[r] ])

\* send_message without the check of blocked_by.
send_message_to_blocker(sender_id, data) ==
    LET reject(status, detail) ==
            /\ last' = Refusal("send_message", status, detail)
            /\ UNCHANGED << messages, next_id, now >>
        create ==
            /\ next_id.message <= MaxMessages
            /\ now <= MaxClock
            /\ messages' = messages \cup
                   { [ id |-> next_id.message, chat_id |-> data.chat_id,
                       group_id |-> data.group_id, sender_id |-> sender_id,
                       content |-> data.content, media_url |-> data.media_url,
                       message_type |-> data.message_type, created_at |-> now,
                       edited_at |-> None, is_deleted_for_all |-> FALSE ] }
            /\ next_id' = [ next_id EXCEPT !.message = @ + 1 ]
            /\ now' = now + 1
            /\ last' = Response("send_message", "ok",
                                next_id.message)
    IN
    /\ IF data.chat_id # None
       THEN IF \/ ChatById(data.chat_id) = {}
               \/ \E chat \in ChatById(data.chat_id) :
                      sender_id \notin { chat.user1_id, chat.user2_id }
            THEN reject("403", "Unauthorized or invalid chat")
            ELSE create
       ELSE IF data.group_id # None
       THEN IF << data.group_id, sender_id >> \notin group_members
            THEN reject("403", "You are not a member of the group")
            ELSE create
       ELSE reject("400", "chat_id or group_id is required")
    /\ UNCHANGED << dbChat, blocked_users, group_members, ws, message_visibility,
                    reactions, sessions >>

\* crud.send_message, lines 530-559.
send_message(sender_id, data) ==
    LET reject(status, detail) ==
            /\ last' = Refusal("send_message", status, detail)
            /\ UNCHANGED << messages, next_id, now >>
        create ==
            /\ next_id.message <= MaxMessages
            /\ now <= MaxClock
            /\ messages' = messages \cup
                   { [ id |-> next_id.message, chat_id |-> data.chat_id,
                       group_id |-> data.group_id, sender_id |-> sender_id,
                       content |-> data.content, media_url |-> data.media_url,
                       message_type |-> data.message_type, created_at |-> now,
                       edited_at |-> None, is_deleted_for_all |-> FALSE ] }
            /\ next_id' = [ next_id EXCEPT !.message = @ + 1 ]
            /\ now' = now + 1
            /\ last' = Response("send_message", "ok",
                                next_id.message)
    IN
    /\ IF data.chat_id # None
       THEN IF \/ ChatById(data.chat_id) = {}
               \/ \E chat \in ChatById(data.chat_id) :
                      sender_id \notin { chat.user1_id, chat.user2_id }
            THEN reject("403", "Unauthorized or invalid chat")
            ELSE IF \E chat \in ChatById(data.chat_id) :
                        chat.blocked_by # None /\ chat.blocked_by # sender_id
            THEN reject("403", "You are blocked by the other user")
            ELSE create
       ELSE IF data.group_id # None
       THEN IF << data.group_id, sender_id >> \notin group_members
            THEN reject("403", "You are not a member of the group")
            ELSE create
       ELSE reject("400", "chat_id or group_id is required")
    /\ UNCHANGED << dbChat, blocked_users, group_members, ws, message_visibility,
                    reactions, sessions >>

\* edit_message without the check of the sender.
edit_message_by_anyone(message_id, user_id, new_content) ==
    /\ IF MessageById(message_id) = {}
       THEN /\ last' = Response("edit_message", "403", None)
            /\ UNCHANGED << messages, now >>
       ELSE \E message \in MessageById(message_id) :
            /\ now <= MaxClock
            /\ messages' = (messages \ {message}) \cup
                   { [ message EXCEPT !.content = new_content, !.edited_at = now ] }
            /\ now' = now + 1
            /\ last' = Response("edit_message", "ok", message_id)
    /\ UNCHANGED << dbChat, blocked_users, group_members, ws, message_visibility,
                    reactions, next_id, sessions >>

\* crud.edit_message, lines 562-571.
edit_message(message_id, user_id, new_content) ==
    /\ IF \/ MessageById(message_id) = {}
          \/ \E message \in MessageById(message_id) : message.sender_id # user_id
       THEN /\ last' = Response("edit_message", "403", None)
            /\ UNCHANGED << messages, now >>
       ELSE \E message \in MessageById(message_id) :
            /\ now <= MaxClock
            /\ messages' = (messages \ {message}) \cup
                   { [ message EXCEPT !.content = new_content, !.edited_at = now ] }
            /\ now' = now + 1
            /\ last' = Response("edit_message", "ok", message_id)
    /\ UNCHANGED << dbChat, blocked_users, group_members, ws, message_visibility,
                    reactions, next_id, sessions >>

\* delete_message that inserts the visibility row without looking for one.
delete_message_hides_again(message_id, user_id, for_everyone) ==
    LET respond(status) ==
            /\ last' = Response("delete_message", status, None)
            /\ UNCHANGED sessions
    IN
    /\ IF MessageById(message_id) = {}
       THEN respond("404") /\ UNCHANGED messages
       ELSE \E message \in MessageById(message_id) :
            IF for_everyone
            THEN IF message.sender_id # user_id
                 THEN respond("403") /\ UNCHANGED messages
                 ELSE /\ messages' = (messages \ {message}) \cup
                             { [ message EXCEPT !.is_deleted_for_all = TRUE ] }
                      /\ respond("ok")
            ELSE /\ UNCHANGED messages
                 /\ next_id.hide + PendingInserts("delete_message") <= MaxHides
                 /\ Start(Session("delete_message", user_id, message_id, ""))
                 /\ UNCHANGED last
    /\ UNCHANGED << dbChat, blocked_users, group_members, ws, message_visibility,
                    reactions, next_id, now >>

\* delete_message without the check of the sender.
delete_message_by_anyone(message_id, user_id, for_everyone) ==
    LET respond(status) ==
            /\ last' = Response("delete_message", status, None)
            /\ UNCHANGED sessions
    IN
    /\ IF MessageById(message_id) = {}
       THEN respond("404") /\ UNCHANGED messages
       ELSE \E message \in MessageById(message_id) :
            IF for_everyone
            THEN /\ messages' = (messages \ {message}) \cup
                        { [ message EXCEPT !.is_deleted_for_all = TRUE ] }
                 /\ respond("ok")
            ELSE /\ UNCHANGED messages
                 /\ IF HidesOf(message_id, user_id) # {}
                    THEN respond("ok")
                    ELSE /\ next_id.hide + PendingInserts("delete_message") <= MaxHides
                         /\ Start(Session("delete_message", user_id, message_id, ""))
                         /\ UNCHANGED last
    /\ UNCHANGED << dbChat, blocked_users, group_members, ws, message_visibility,
                    reactions, next_id, now >>

\* crud.delete_message, lines 574-587: the lookups, and the delete for everyone.
delete_message_query(message_id, user_id, for_everyone) ==
    LET respond(status) ==
            /\ last' = Response("delete_message", status, None)
            /\ UNCHANGED sessions
    IN
    /\ IF MessageById(message_id) = {}
       THEN respond("404") /\ UNCHANGED messages
       ELSE \E message \in MessageById(message_id) :
            IF for_everyone
            THEN IF message.sender_id # user_id
                 THEN respond("403") /\ UNCHANGED messages
                 ELSE /\ messages' = (messages \ {message}) \cup
                             { [ message EXCEPT !.is_deleted_for_all = TRUE ] }
                      /\ respond("ok")
            ELSE /\ UNCHANGED messages
                 /\ IF HidesOf(message_id, user_id) # {}
                    THEN respond("ok")
                    ELSE /\ next_id.hide + PendingInserts("delete_message") <= MaxHides
                         /\ Start(Session("delete_message", user_id, message_id, ""))
                         /\ UNCHANGED last
    /\ UNCHANGED << dbChat, blocked_users, group_members, ws, message_visibility,
                    reactions, next_id, now >>

\* crud.delete_message, lines 588-590: the insert of the visibility row.
delete_message_commit(r) ==
    /\ r \in BagToSet(sessions) /\ r.pc = "delete_message"
    /\ IF MessageById(r.id) = {}
       THEN /\ last' = Response("delete_message", "500", None)
            /\ UNCHANGED << message_visibility, next_id >>
       ELSE /\ message_visibility' = message_visibility \cup
                   { [ id |-> next_id.hide, message_id |-> r.id, user_id |-> r.user_id ] }
            /\ next_id' = [ next_id EXCEPT !.hide = @ + 1 ]
            /\ last' = Response("delete_message", "ok", None)
    /\ Finish(r)
    /\ UNCHANGED << dbChat, blocked_users, group_members, ws, messages, reactions, now >>

\* unsend_message that forgets to clear media_url.
unsend_message_keeps_media(message_id, user_id) ==
    /\ IF \/ MessageById(message_id) = {}
          \/ \E message \in MessageById(message_id) : message.sender_id # user_id
       THEN /\ last' = Response("unsend_message", "403", None)
            /\ UNCHANGED messages
       ELSE \E message \in MessageById(message_id) :
            /\ messages' = (messages \ {message}) \cup
                   { [ message EXCEPT !.content = MessageDeleted,
                                      !.is_deleted_for_all = TRUE ] }
            /\ last' = Response("unsend_message", "ok", None)
    /\ UNCHANGED << dbChat, blocked_users, group_members, ws, message_visibility,
                    reactions, next_id, now, sessions >>

\* crud.unsend_message, lines 593-602.
unsend_message(message_id, user_id) ==
    /\ IF \/ MessageById(message_id) = {}
          \/ \E message \in MessageById(message_id) : message.sender_id # user_id
       THEN /\ last' = Response("unsend_message", "403", None)
            /\ UNCHANGED messages
       ELSE \E message \in MessageById(message_id) :
            /\ messages' = (messages \ {message}) \cup
                   { [ message EXCEPT !.content = MessageDeleted,
                                      !.media_url = NoText,
                                      !.is_deleted_for_all = TRUE ] }
            /\ last' = Response("unsend_message", "ok", None)
    /\ UNCHANGED << dbChat, blocked_users, group_members, ws, message_visibility,
                    reactions, next_id, now, sessions >>

\* crud.react_to_message, line 606: the lookup of the user's reaction.
react_to_message_query(message_id, user_id, emoji) ==
    /\ IF ReactionsOf(message_id, user_id) # {}
       THEN \E existing \in ReactionsOf(message_id, user_id) :   \* .first()
                Start(SessionOn("react_to_message", user_id, message_id, emoji,
                                existing.id))
       ELSE /\ next_id.reaction + PendingInserts("react_to_message") <= MaxReactions
            /\ Start(Session("react_to_message", user_id, message_id, emoji))
    /\ UNCHANGED << dbChat, dbMsg, blocked_users, group_members, ws, next_id, last >>

\* crud.react_to_message, lines 607-612: the update or insert, and the commit.
react_to_message_commit(r) ==
    LET respond(status, value) ==
            last' = Response("react_to_message", status, value)
    IN
    /\ r \in BagToSet(sessions) /\ r.pc = "react_to_message"
    /\ IF r.row # None
       THEN IF \E x \in reactions : x.id = r.row
            THEN \E x \in reactions :
                 /\ x.id = r.row
                 /\ reactions' = (reactions \ {x}) \cup { [ x EXCEPT !.emoji = r.arg ] }
                 /\ \E y \in ReactionsOf(r.id, r.user_id) : respond("ok", y.id)
                 /\ UNCHANGED next_id
            ELSE /\ respond("500", None)      \* the loaded row is gone
                 /\ UNCHANGED << reactions, next_id >>
       ELSE IF MessageById(r.id) = {}
            THEN /\ respond("500", None)      \* no such message to refer to
                 /\ UNCHANGED << reactions, next_id >>
            ELSE /\ reactions' = reactions \cup
                        { [ id |-> next_id.reaction, message_id |-> r.id,
                            user_id |-> r.user_id, emoji |-> r.arg ] }
                 /\ next_id' = [ next_id EXCEPT !.reaction = @ + 1 ]
                 /\ \E y \in ReactionsOf(r.id, r.user_id)
                              \cup { [ id |-> next_id.reaction ] } :
                        respond("ok", y.id)
    /\ Finish(r)
    /\ UNCHANGED << dbChat, blocked_users, group_members, ws, messages,
                    message_visibility, now >>

\* crud.remove_reaction, line 616: the lookup.
remove_reaction_query(message_id, user_id) ==
    /\ IF ReactionsOf(message_id, user_id) # {}
       THEN \E reaction \in ReactionsOf(message_id, user_id) :   \* .first()
                /\ Start(SessionOn("remove_reaction", user_id, message_id, "",
                                   reaction.id))
                /\ UNCHANGED last
       ELSE /\ last' = Response("remove_reaction", "ok", None)
            /\ UNCHANGED sessions
    /\ UNCHANGED << dbChat, dbMsg, blocked_users, group_members, ws, next_id >>

\* crud.remove_reaction, lines 617-620: the delete and the commit.
remove_reaction_commit(r) ==
    /\ r \in BagToSet(sessions) /\ r.pc = "remove_reaction"
    /\ reactions' = { x \in reactions : x.id # r.row }
    /\ last' = Response("remove_reaction", "ok", None)
    /\ Finish(r)
    /\ UNCHANGED << dbChat, blocked_users, group_members, ws, messages,
                    message_visibility, next_id, now >>

\* forward_message that stores the copy for a group before it looks for the
\* membership of the sender.
forward_message_copies_first(original_message_id, sender_id, target_chat_id, target_group_id) ==
    /\ IF \/ MessageById(original_message_id) = {}
          \/ target_chat_id # None
          \/ target_group_id = None
          \/ << target_group_id, sender_id >> \in group_members
       THEN /\ last' = Response("forward_message", "404", None)
            /\ UNCHANGED << messages, next_id, now >>
       ELSE \E original \in MessageById(original_message_id) :
            /\ next_id.message <= MaxMessages
            /\ now <= MaxClock
            /\ messages' = messages \cup
                   { [ id |-> next_id.message, chat_id |-> None,
                       group_id |-> target_group_id, sender_id |-> sender_id,
                       content |-> original.content,
                       media_url |-> original.media_url,
                       message_type |-> original.message_type, created_at |-> now,
                       edited_at |-> None, is_deleted_for_all |-> FALSE ] }
            /\ next_id' = [ next_id EXCEPT !.message = @ + 1 ]
            /\ now' = now + 1
            /\ last' = Response("forward_message", "403", None)
    /\ UNCHANGED << dbChat, blocked_users, group_members, ws, message_visibility,
                    reactions, sessions >>

\* crud.forward_message, lines 659-697.  The copy goes to the target chat
\* without a look at the chat; a chat_id that no Chat row has breaks the
\* foreign key of messages.chat_id at the commit.
forward_message(original_message_id, sender_id, target_chat_id, target_group_id) ==
    LET respond(status) ==
            /\ last' = Response("forward_message", status, None)
            /\ UNCHANGED << messages, next_id, now >>
        copy(original, chat_id, group_id) ==
            /\ next_id.message <= MaxMessages
            /\ now <= MaxClock
            /\ messages' = messages \cup
                   { [ id |-> next_id.message, chat_id |-> chat_id,
                       group_id |-> group_id, sender_id |-> sender_id,
                       content |-> original.content,
                       media_url |-> original.media_url,
                       message_type |-> original.message_type, created_at |-> now,
                       edited_at |-> None, is_deleted_for_all |-> FALSE ] }
            /\ next_id' = [ next_id EXCEPT !.message = @ + 1 ]
            /\ now' = now + 1
            /\ last' = Response("forward_message", "ok", next_id.message)
    IN
    /\ IF MessageById(original_message_id) = {}
       THEN respond("404")
       ELSE \E original \in MessageById(original_message_id) :
            IF target_chat_id # None
            THEN IF ChatById(target_chat_id) = {}
                 THEN respond("500")
                 ELSE copy(original, target_chat_id, None)
            ELSE IF target_group_id # None
            THEN IF << target_group_id, sender_id >> \notin group_members
                 THEN respond("403")
                 ELSE copy(original, None, target_group_id)
            ELSE respond("400")
    /\ UNCHANGED << dbChat, blocked_users, group_members, ws, message_visibility,
                    reactions, sessions >>

\* --------------------------------------------------------------------- groups
\* The groups that exist.  create_group makes its creator a member in the
\* request that creates the group, so a group is there when it has a member.
Groups == { g \in GroupIds : \E u \in Users : << g, u >> \in group_members }

\* routes/chats.py create_group, lines 44-70.  A group is known by its name,
\* which line 50 keeps unique; members_usernames are the users to add besides
\* the creator.
create_group(current_user, name, members_usernames) ==
    /\ IF name \in Groups
       THEN /\ last' = Refusal("create_group", "400", "Group name already exists.")
            /\ UNCHANGED group_members
       ELSE /\ group_members' = group_members
                   \cup { << name, current_user >> }
                   \cup { << name, user >> : user \in members_usernames \ { current_user } }
            /\ last' = Response("create_group", "ok", name)
    /\ UNCHANGED << dbChat, dbMsg, blocked_users, ws, next_id, sessions >>

\* ------------------------------------------------------------------ listings
\* order_by(created_at.asc()): the rows as a sequence, oldest first.
RECURSIVE OldestFirst(_)
OldestFirst(rows) ==
    IF rows = {} THEN << >>
    ELSE LET top == CHOOSE m \in rows :
                        \A n \in rows : << m.created_at, m.id >> = << n.created_at, n.id >>
                                        \/ m.created_at < n.created_at
                                        \/ (m.created_at = n.created_at /\ m.id < n.id)
         IN  << top >> \o OldestFirst(rows \ {top})

\* Lower case of the characters that occur in message text.
Lower(ch) == IF ch = "Y" THEN "y" ELSE IF ch = "H" THEN "h" ELSE ch

\* content.ilike("%search%"): a substring, whatever the case; never for NULL.
ilike(content, search) ==
    /\ content # NoText
    /\ \E i \in 0..Len(content) :
        /\ i + Len(search) <= Len(content)
        /\ \A j \in 1..Len(search) : Lower(content[i + j]) = Lower(search[j])

\* get_filtered_messages that keeps the tombstones of a group in its listing.
get_filtered_messages_keeps_group_tombstones(chat_id, group_id, user_id, search, type) ==
    LET base ==
            IF chat_id # None
            THEN { m \in messages : /\ m.chat_id = chat_id
                                    /\ m.is_deleted_for_all = FALSE
                                    /\ HidesOf(m.id, user_id) = {} }
            ELSE { m \in messages : m.group_id = group_id }
        typed == IF type # "" THEN { m \in base : m.message_type = type } ELSE base
        found == IF search # << >>
                 THEN { m \in typed : ilike(m.content, search) }
                 ELSE typed
    IN  IF chat_id = None /\ group_id = None
        THEN [ status |-> "400", rows |-> << >> ]
        ELSE [ status |-> "ok", rows |-> OldestFirst(found) ]

\* crud.get_filtered_messages, lines 623-656.  search is << >> and type is ""
\* when the caller passes none.
get_filtered_messages(chat_id, group_id, user_id, search, type) ==
    LET base ==
            IF chat_id # None
            THEN { m \in messages : /\ m.chat_id = chat_id
                                    /\ m.is_deleted_for_all = FALSE
                                    /\ HidesOf(m.id, user_id) = {} }
            ELSE { m \in messages : /\ m.group_id = group_id
                                    /\ m.is_deleted_for_all = FALSE }
        typed == IF type # "" THEN { m \in base : m.message_type = type } ELSE base
        found == IF search # << >>
                 THEN { m \in typed : ilike(m.content, search) }
                 ELSE typed
    IN  IF chat_id = None /\ group_id = None
        THEN [ status |-> "400", rows |-> << >> ]
        ELSE [ status |-> "ok", rows |-> OldestFirst(found) ]

\* routes/chats.py get_chat_messages, lines 206-215.
get_chat_messages(chat_id, current_user) ==
    IF \/ ChatById(chat_id) = {}
       \/ \E chat \in ChatById(chat_id) :
              current_user \notin { chat.user1_id, chat.user2_id }
    THEN [ status |-> "403", rows |-> << >> ]
    ELSE [ status |-> "ok",
           rows |-> OldestFirst({ m \in messages : m.chat_id = chat_id }) ]

\* routes/chats.py get_group_messages, lines 196-204.
get_group_messages(group_id, current_user) ==
    IF << group_id, current_user >> \notin group_members
    THEN [ status |-> "403", rows |-> << >> ]
    ELSE [ status |-> "ok",
           rows |-> OldestFirst({ m \in messages : m.group_id = group_id }) ]

\* ---------------------------------------------------------- realtime fan-out
\* app/websocket_manager.py ConnectionManager with the coroutines of
\* routes/chats.py websocket_endpoint, one per socket.  A coroutine runs without
\* interruption from one await that suspends to the next, so a step is the code
\* between two such awaits: websocket.accept(), websocket.receive_json() and
\* websocket.send_json().  The lock of the manager is taken and released within
\* one step and never makes a coroutine wait.
Sockets == 1..MaxSockets

NoData == [ n |-> None, event |-> "", chat_id |-> None, user_id |-> None ]

\* A socket nobody has opened yet.
Unused == [ user_id |-> None, pc |-> "new", alive |-> FALSE,
            data |-> NoData, size |-> None, visited |-> {} ]

\* The coroutine of a socket is between accept and the end of its loop.
Running(websocket) == websockets[websocket].pc \in { "receive", "broadcast" }

\* send_json on the socket goes through: the peer is there and the server has
\* not closed the socket.
Sendable(websocket) == websockets[websocket].alive /\ Running(websocket)

\* connect that keeps the socket a user is registered with.
connect_keeps_first(user_id, websocket) ==
    active_connections' =
        [ active_connections EXCEPT ![user_id] = IF @ = None THEN websocket ELSE @ ]

\* ConnectionManager.connect, lines 14-15, after accept.
connect(user_id, websocket) ==
    active_connections' = [ active_connections EXCEPT ![user_id] = websocket ]

\* ConnectionManager.disconnect, lines 17-20.
disconnect(user_id) ==
    active_connections' = [ active_connections EXCEPT ![user_id] = None ]

\* ConnectionManager.join_chat, lines 32-33.
join_chat(user_id, chat_id) ==
    chat_subscribers' = [ chat_subscribers EXCEPT ![chat_id] = @ \cup { user_id } ]

\* ConnectionManager.leave_chat, lines 35-36.
leave_chat(user_id, chat_id) ==
    chat_subscribers' = [ chat_subscribers EXCEPT ![chat_id] = @ \ { user_id } ]

\* ConnectionManager.send_to_user, lines 22-25: "none" without a registered
\* socket, "sent" when send_json goes through, "failed" when it raises.
send_to_user(user_id) ==
    IF active_connections[user_id] = None THEN "none"
    ELSE IF Sendable(active_connections[user_id]) THEN "sent"
    ELSE "failed"

\* The socket gets data.
send_json(websocket, data) ==
    delivered' = delivered (+) SetToBag({ [ websocket |-> websocket, data |-> data ] })

\* websocket_endpoint, line 21 up to the await of websocket.accept() in connect.
websocket_endpoint(websocket, user_id) ==
    /\ websockets[websocket].pc = "new"
    /\ \A earlier \in Sockets : earlier < websocket => websockets[earlier].pc # "new"
    /\ websockets' = [ websockets EXCEPT ![websocket] =
                         [ Unused EXCEPT !.user_id = user_id, !.pc = "accept",
                                         !.alive = TRUE ] ]
    /\ UNCHANGED << active_connections, chat_subscribers, broadcasts, delivered >>
    /\ UNCHANGED << dbChat, dbMsg, blocked_users, group_members, next_id, sessions, last >>

\* websocket_endpoint, line 21: connect after accept, up to receive_json.
websocket_accepted(websocket) ==
    /\ websockets[websocket].pc = "accept"
    /\ connect(websockets[websocket].user_id, websocket)
    /\ websockets' = [ websockets EXCEPT ![websocket].pc = "receive" ]
    /\ UNCHANGED << chat_subscribers, broadcasts, delivered >>
    /\ UNCHANGED << dbChat, dbMsg, blocked_users, group_members, next_id, sessions, last >>

\* What an exception out of the loop of websocket_endpoint does to the
\* coroutine of the socket, lines 22-41: WebSocketDisconnect is caught and
\* disconnect(user_id) is called; any other exception ends the coroutine, and
\* the registry keeps what it has.
raise(websocket, exception) ==
    IF exception = "WebSocketDisconnect"
    THEN /\ disconnect(websockets[websocket].user_id)
         /\ websockets' = [ websockets EXCEPT ![websocket] =
                              [ @ EXCEPT !.pc = "closed", !.data = NoData,
                                         !.size = None, !.visited = {} ] ]
    ELSE /\ UNCHANGED active_connections
         /\ websockets' = [ websockets EXCEPT ![websocket] =
                              [ @ EXCEPT !.pc = exception, !.data = NoData,
                                         !.size = None, !.visited = {} ] ]

\* ConnectionManager.broadcast_to_chat, lines 29-30: the loop over the
\* subscriber set, from where the coroutine w stands to the send_json it is
\* suspended in next, or to the end of the loop.  The iterator of a set raises
\* RuntimeError when the size of the set is not what it was when the loop
\* began.  A subscriber without a registered socket is passed without an await
\* (line 24).  A send_json that fails raises WebSocketDisconnect or
\* RuntimeError, as the installed starlette has it; nothing between the
\* send_json and websocket_endpoint catches either.
iterate(websocket, w) ==
    LET subscribers == chat_subscribers[w.data.chat_id]
        rest == subscribers \ w.visited
        absent == { v \in rest : send_to_user(v) = "none" }
    IN
    IF Cardinality(subscribers) # w.size
    THEN /\ raise(websocket, "RuntimeError")
         /\ UNCHANGED delivered
    ELSE \/ /\ rest = absent
            /\ websockets' = [ websockets EXCEPT ![websocket] =
                                 [ w EXCEPT !.pc = "receive", !.data = NoData,
                                            !.size = None, !.visited = {} ] ]
            /\ UNCHANGED << active_connections, delivered >>
         \/ \E user_id \in rest \ absent, passed \in SUBSET absent :
                IF send_to_user(user_id) = "sent"
                THEN /\ send_json(active_connections[user_id], w.data)
                     /\ websockets' = [ websockets EXCEPT ![websocket] =
                            [ w EXCEPT !.visited = @ \cup passed \cup { user_id } ] ]
                     /\ UNCHANGED active_connections
                ELSE /\ \E exception \in { "WebSocketDisconnect", "RuntimeError" } :
                            raise(websocket, exception)
                     /\ UNCHANGED delivered

\* websocket_endpoint, lines 24-39: receive_json returns a message of the
\* client.  typing and seen call broadcast_to_chat, which reads the subscriber
\* set of the chat (line 28) and runs its loop up to the first send_json.
websocket_receive(websocket, event, chat_id) ==
    LET user_id == websockets[websocket].user_id IN
    /\ websockets[websocket].pc = "receive"
    /\ websockets[websocket].alive
    /\ IF event \in { "typing", "seen" }
       THEN /\ broadcasts < MaxBroadcasts
            /\ broadcasts' = broadcasts + 1
            /\ iterate(websocket,
                   [ websockets[websocket] EXCEPT
                       !.pc = "broadcast",
                       !.data = [ n |-> broadcasts + 1, event |-> event,
                                  chat_id |-> chat_id, user_id |-> user_id ],
                       !.size = Cardinality(chat_subscribers[chat_id]),
                       !.visited = {} ])
            /\ UNCHANGED chat_subscribers
       ELSE IF event = "join"
       THEN /\ join_chat(user_id, chat_id)
            /\ UNCHANGED << active_connections, websockets, broadcasts, delivered >>
       ELSE IF event = "leave"
       THEN /\ leave_chat(user_id, chat_id)
            /\ UNCHANGED << active_connections, websockets, broadcasts, delivered >>
       ELSE UNCHANGED ws
    /\ UNCHANGED << dbChat, dbMsg, blocked_users, group_members, next_id, sessions, last >>

\* ConnectionManager.broadcast_to_chat, lines 29-30: the send_json the loop
\* was suspended in has returned, and the loop goes on.
broadcast_to_chat(websocket) ==
    /\ websockets[websocket].pc = "broadcast"
    /\ iterate(websocket, websockets[websocket])
    /\ UNCHANGED << chat_subscribers, broadcasts >>
    /\ UNCHANGED << dbChat, dbMsg, blocked_users, group_members, next_id, sessions, last >>

\* The peer of the socket goes away.
websocket_lost(websocket) ==
    /\ Running(websocket)
    /\ websockets[websocket].alive
    /\ websockets' = [ websockets EXCEPT ![websocket].alive = FALSE ]
    /\ UNCHANGED << active_connections, chat_subscribers, broadcasts, delivered >>
    /\ UNCHANGED << dbChat, dbMsg, blocked_users, group_members, next_id, sessions, last >>

\* websocket_endpoint, lines 24 and 40-41: receive_json raises
\* WebSocketDisconnect on a socket whose peer is gone.
websocket_disconnect(websocket) ==
    /\ websockets[websocket].pc = "receive"
    /\ ~websockets[websocket].alive
    /\ raise(websocket, "WebSocketDisconnect")
    /\ UNCHANGED << chat_subscribers, broadcasts, delivered >>
    /\ UNCHANGED << dbChat, dbMsg, blocked_users, group_members, next_id, sessions, last >>

\* ------------------------------------------------------------ specification
Init ==
    /\ chats = {}
    /\ chat_requests = {}
    /\ blocked_users = {}
    /\ group_members = {}
    /\ messages = {}
    /\ message_visibility = {}
    /\ reactions = {}
    /\ next_id = [ chat |-> 1, request |-> 1, message |-> 1, reaction |-> 1, hide |-> 1 ]
    /\ now = 1
    /\ sessions = EmptyBag
    /\ last = Response("none", "ok", None)
    /\ active_connections = [ u \in Users |-> None ]
    /\ chat_subscribers = [ c \in ChatIds |-> {} ]
    /\ websockets = [ s \in Sockets |-> Unused ]
    /\ broadcasts = 0
    /\ delivered = EmptyBag

CreateOrGetChat ==
    \/ \E a, b \in Users : create_or_get_chat_query(a, b)
    \/ \E r \in BagToSet(sessions) : create_or_get_chat_commit(r)

CreateOrRequestChat ==
    \/ \E a \in Users, b \in Users \cup { NoSuchUser } : create_or_request_chat_query(a, b)
    \/ \E r \in BagToSet(sessions) : create_or_request_chat_commit(r)

HandleChatRequestAction ==
    \/ \E q \in 1..MaxRequests, a \in { "accept", "decline", "block" }, u \in Users :
           handle_chat_request_action_query(q, a, u)
    \/ \E r \in BagToSet(sessions) : handle_chat_request_action_commit(r)

ChatAction(actions) ==
    \E c \in ChatIds \cup { NoSuchChat }, u \in Users, a \in actions :
        handle_chat_request(c, u, a)

HandleChatRequest == ChatAction({ "accept", "decline", "block", "mute" })

Block ==
    \/ \E a \in Users, b \in Users \cup { NoSuchUser } : block_user(a, b)
    \/ \E a \in Users, b \in Users \cup { NoSuchUser } : unblock_user(a, b)

SendMessage == \E u \in Users, data \in MessageCreates : send_message(u, data)

EditMessage ==
    \E m \in MessageIds, u \in Users, x \in Contents : edit_message(m, u, x)

DeleteMessage ==
    \/ \E m \in MessageIds, u \in Users, e \in BOOLEAN : delete_message_query(m, u, e)
    \/ \E r \in BagToSet(sessions) : delete_message_commit(r)

UnsendMessage == \E m \in MessageIds, u \in Users : unsend_message(m, u)

ForwardMessage ==
    \E m \in MessageIds, u \in Users,
       c \in ChatIds \cup { NoSuchChat, None }, g \in GroupIds \cup { None } :
        forward_message(m, u, c, g)

DeleteForEveryone ==
    \E m \in MessageIds, u \in Users : delete_message_query(m, u, TRUE)

React ==
    \/ \E m \in MessageIds, u \in Users, e \in Emojis : react_to_message_query(m, u, e)
    \/ \E r \in BagToSet(sessions) : react_to_message_commit(r)

RemoveReaction ==
    \/ \E m \in MessageIds, u \in Users : remove_reaction_query(m, u)
    \/ \E r \in BagToSet(sessions) : remove_reaction_commit(r)

CreateGroup(users) ==
    \E u \in users, g \in GroupIds, members \in SUBSET users : create_group(u, g, members)

Connect(users) ==
    \/ \E s \in Sockets, u \in users : websocket_endpoint(s, u)
    \/ \E s \in Sockets : websocket_accepted(s)

Receive(events, chat_ids) ==
    \E s \in Sockets, e \in events, c \in chat_ids : websocket_receive(s, e, c)

Broadcast == \E s \in Sockets : broadcast_to_chat(s)

Disconnect ==
    \/ \E s \in Sockets : websocket_lost(s)
    \/ \E s \in Sockets : websocket_disconnect(s)

Next ==
    \/ CreateOrGetChat
    \/ CreateOrRequestChat
    \/ HandleChatRequestAction
    \/ HandleChatRequest
    \/ Block
    \/ SendMessage
    \/ EditMessage
    \/ DeleteMessage
    \/ UnsendMessage
    \/ React
    \/ RemoveReaction
    \/ ForwardMessage
    \/ CreateGroup(Users)
    \/ Connect(Users)
    \/ Receive({ "typing", "seen", "join", "leave", "ping" }, ChatIds)
    \/ Broadcast
    \/ Disconnect

Spec == Init /\ [][Next]_vars

\* No request is in flight: the next one starts on a settled database.
Quiet == sessions = EmptyBag

\* The chat-creating handlers, two requests at a time.
NextChat ==
    \/ CreateOrGetChat
    \/ CreateOrRequestChat
    \/ HandleChatRequestAction

SpecChat == Init /\ [][NextChat]_vars

\* Chat creation with the block registry, one request at a time.
NextBlock ==
    \/ Quiet /\ CreateOrGetChat
    \/ \E r \in BagToSet(sessions) : create_or_get_chat_commit(r)
    \/ Quiet /\ CreateOrRequestChat
    \/ \E r \in BagToSet(sessions) : create_or_request_chat_commit(r)
    \/ Quiet /\ Block

SpecBlock == Init /\ [][NextBlock]_vars

\* Chat creation with the chat actions.
NextList ==
    \/ CreateOrGetChat
    \/ HandleChatRequest

SpecList == Init /\ [][NextList]_vars

\* The message engine, one request at a time, on one chat that is created,
\* blocked and accepted.
NextMsg ==
    \/ Quiet /\ chats = {} /\ CreateOrGetChat
    \/ \E r \in BagToSet(sessions) : create_or_get_chat_commit(r)
    \/ Quiet /\ ChatAction({ "accept", "block" })
    \/ Quiet /\ SendMessage
    \/ Quiet /\ EditMessage
    \/ Quiet /\ UnsendMessage

SpecMsg == Init /\ [][NextMsg]_vars

\* Hiding and deleting messages, one request at a time.
NextHide ==
    \/ Quiet /\ chats = {} /\ CreateOrGetChat
    \/ \E r \in BagToSet(sessions) : create_or_get_chat_commit(r)
    \/ Quiet /\ SendMessage
    \/ Quiet /\ DeleteMessage
    \/ \E r \in BagToSet(sessions) : delete_message_commit(r)

SpecHide == Init /\ [][NextHide]_vars

\* Reactions, two requests at a time, on one message of one chat.
NextReact ==
    \/ Quiet /\ chats = {} /\ CreateOrGetChat
    \/ \E r \in BagToSet(sessions) : create_or_get_chat_commit(r)
    \/ Quiet /\ messages = {} /\ SendMessage
    \/ React
    \/ RemoveReaction

SpecReact == Init /\ [][NextReact]_vars

\* The chat actions on a chat that holds messages, one request at a time; a
\* chat that was declined can be created again.
NextDecline ==
    \/ Quiet /\ chats = {} /\ CreateOrGetChat
    \/ \E r \in BagToSet(sessions) : create_or_get_chat_commit(r)
    \/ Quiet /\ SendMessage
    \/ Quiet /\ HandleChatRequest

SpecDecline == Init /\ [][NextDecline]_vars

\* The connection registry and the sockets of two users on one chat, with
\* every interleaving of the coroutines.
NextWs ==
    \/ Connect({ 1, 2 })
    \/ Receive({ "typing", "join", "leave" }, { 1 })
    \/ Broadcast
    \/ Disconnect

SpecWs == Init /\ [][NextWs]_vars

\* Sends into one chat while sockets connect and subscribe to it.
NextSend ==
    \/ Quiet /\ chats = {} /\ CreateOrGetChat
    \/ \E r \in BagToSet(sessions) : create_or_get_chat_commit(r)
    \/ Quiet /\ messages = {} /\ SendMessage
    \/ Connect({ 1, 2 })
    \/ Receive({ "join" }, { 1 })

SpecSend == Init /\ [][NextSend]_vars

\* No broadcast is under way.
NoBroadcast == \A s \in Sockets : websockets[s].pc # "broadcast"

\* The registry with broadcasts that run from their first send to their last
\* before any other coroutine gets its turn.
NextFanout ==
    \/ NoBroadcast /\ Connect({ 1, 2 })
    \/ NoBroadcast /\ Receive({ "typing", "join" }, { 1 })
    \/ Broadcast
    \/ NoBroadcast /\ Disconnect

SpecFanout == Init /\ [][NextFanout]_vars

\* Forwarding, one request at a time, of the messages of one chat.
NextFwd ==
    \/ Quiet /\ chats = {} /\ CreateOrGetChat
    \/ \E r \in BagToSet(sessions) : create_or_get_chat_commit(r)
    \/ Quiet /\ messages = {} /\ SendMessage
    \/ Quiet /\ ForwardMessage

SpecFwd == Init /\ [][NextFwd]_vars

\* Nothing has been forwarded yet.
NotForwarded == Cardinality(messages) <= 1

\* The whole message engine on one chat, one request at a time: one message
\* is sent, edited, hidden, reacted to, deleted, and in the end forwarded.  No
\* group has been created, so every request for a group is refused.
NextEngine ==
    \/ Quiet /\ chats = {} /\ CreateOrGetChat
    \/ \E r \in BagToSet(sessions) : create_or_get_chat_commit(r)
    \/ Quiet /\ messages = {} /\ SendMessage
    \/ Quiet /\ NotForwarded /\ EditMessage
    \/ Quiet /\ NotForwarded /\ message_visibility = {} /\ DeleteMessage
    \/ \E r \in BagToSet(sessions) : delete_message_commit(r)
    \/ Quiet /\ NotForwarded /\ UnsendMessage
    \/ Quiet /\ NotForwarded /\ reactions = {} /\ React
    \/ \E r \in BagToSet(sessions) : react_to_message_commit(r)
    \/ Quiet /\ ForwardMessage

SpecEngine == Init /\ [][NextEngine]_vars

\* Messages of one chat and of one group of users 1 and 2, sent and deleted
\* for everyone, one request at a time.
NextGroup ==
    \/ Quiet /\ chats = {} /\ CreateOrGetChat
    \/ \E r \in BagToSet(sessions) : create_or_get_chat_commit(r)
    \/ Quiet /\ CreateGroup({ 1, 2 })
    \/ Quiet /\ SendMessage
    \/ Quiet /\ DeleteForEveryone

SpecGroup == Init /\ [][NextGroup]_vars

\* The life of a message, one request at a time: sent, edited, deleted for
\* everyone, unsent.
NextTomb ==
    \/ Quiet /\ chats = {} /\ CreateOrGetChat
    \/ \E r \in BagToSet(sessions) : create_or_get_chat_commit(r)
    \/ Quiet /\ SendMessage
    \/ Quiet /\ EditMessage
    \/ Quiet /\ DeleteForEveryone
    \/ Quiet /\ UnsendMessage

SpecTomb == Init /\ [][NextTomb]_vars

\* ------------------------------------------------------------------- claims
\* The rows of a response, as a set.
Rows(response) == { response.rows[i] : i \in 1..Len(response.rows) }

Ids(rows) == { row.id : row \in rows }

Pair(chat) == { chat.user1_id, chat.user2_id }

\* A call create_or_get_chat(a, b) returns in this step: from its lookup, or
\* from its commit.
CreateOrGetChatReturns(a, b) ==
    \/ /\ last'.op = "create_or_get_chat"
       /\ sessions' = sessions
       /\ create_or_get_chat_query(a, b)
    \/ \E r \in BagToSet(sessions) :
           r.user_id = a /\ r.id = b /\ create_or_get_chat_commit(r)

\* C1: create_or_get_chat is idempotent and order-independent.  A call for a
\* pair of distinct users that already has a Chat returns the id of a Chat of
\* the pair, creates no Chat and changes no Chat; and when the call before it
\* was create_or_get_chat for the same pair, in either order, it returns the
\* same id.
C1_CreateOrGetChatIdempotent ==
    [][ \A a, b \in Users :
          (a # b /\ ChatsOfPair(a, b) # {} /\ CreateOrGetChatReturns(a, b))
          => /\ last'.status = "ok"
             /\ last'.value \in Ids(ChatsOfPair(a, b))
             /\ chats' = chats
             /\ (/\ last.op = "create_or_get_chat"
                 /\ last.value \in Ids(ChatsOfPair(a, b)))
                => last'.value = last.value ]_vars

\* C2: at most one Chat row per unordered pair of users, in every reachable
\* state, under any interleaving of the chat-creating handlers.
C2_OneChatPerPair ==
    \A c1, c2 \in chats : Pair(c1) = Pair(c2) => c1 = c2

\* C3: while a block exists between A and B, in either direction,
\* create_or_get_chat(A, B) fails with BlockedError and creates no Chat.
C3_BlockGatesCreation ==
    [][ \A a, b \in Users :
          (a # b /\ is_blocked(a, b) /\ CreateOrGetChatReturns(a, b))
          => /\ last'.status = "BlockedError"
             /\ chats' = chats ]_vars

\* C4: once a message is deleted for everyone, no listing returns it with a
\* content that is not null, to any viewer: not the filtered listing, not the
\* chat route, not the group route.
C4_TombstoneHidesContent ==
    \A m \in messages, viewer \in Users :
        m.is_deleted_for_all = TRUE
        => \A row \in Rows(get_filtered_messages(m.chat_id, m.group_id, viewer, << >>, ""))
                      \cup Rows(get_chat_messages(m.chat_id, viewer))
                      \cup Rows(get_group_messages(m.group_id, viewer)) :
               row.id = m.id => row.content = NoText

C6_HideIsLocal ==
    [][ \A r \in BagToSet(sessions) :
          (/\ last'.op = "delete_message" /\ last'.status = "ok"
           /\ delete_message_commit(r))
          => /\ messages' = messages
             /\ \A m \in MessageById(r.id) :
                  m.chat_id # None
                  => /\ m.id \notin Ids(Rows(get_filtered_messages(
                                             m.chat_id, None, r.user_id, << >>, "")'))
                     /\ m.id \notin Ids(Rows(get_chat_messages(m.chat_id, r.user_id)'))
                     /\ \A y \in Users \ { r.user_id } :
                          /\ get_filtered_messages(m.chat_id, None, y, << >>, "")'
                               = get_filtered_messages(m.chat_id, None, y, << >>, "")
                          /\ get_chat_messages(m.chat_id, y)'
                               = get_chat_messages(m.chat_id, y) ]_vars

\* C7: at most one Reaction row per (message, user), in every reachable state,
\* under any interleaving of react and remove_reaction.
C7_OneReactionPerPair ==
    \A r1, r2 \in reactions :
        (r1.message_id = r2.message_id /\ r1.user_id = r2.user_id) => r1 = r2

\* C8: edit(m, actor, x) by an actor who is not the sender of m fails with
\* status 403 (Forbidden) and leaves the content and edited_at of m as they were.
C8_EditRejectsNonSender ==
    [][ \A m \in MessageIds, u \in Users, x \in Contents :
          (/\ last'.op = "edit_message"
           /\ \E row \in MessageById(m) : row.sender_id # u
           /\ edit_message(m, u, x))
          => /\ last'.status = "403"
             /\ \A row \in MessageById(m) :
                    \E after \in messages' : /\ after.id = m
                                             /\ after.content = row.content
                                             /\ after.edited_at = row.edited_at ]_vars

\* An edit was refused while every message id was that of a stored message:
\* the refusal was for an actor who is not the sender.
C8_Witness ==
    /\ last.op = "edit_message" /\ last.status = "403"
    /\ Cardinality(messages) = MaxMessages

\* C9: list_chats(user) is exactly the chats where user is a participant,
\* is_accepted is true, and blocked_by is not set to the other participant.
C9_ListChats ==
    \A u \in Users :
        { get_user_chats(u)[i] : i \in 1..Len(get_user_chats(u)) }
          = { c \in chats : /\ u \in Pair(c)
                            /\ c.is_accepted = TRUE
                            /\ ~(c.blocked_by # None /\ c.blocked_by # u) }

\* C10: a send to a chat is rejected, and no Message is created, when the chat
\* does not exist, when the sender is not one of its two participants, or when
\* its blocked_by is set to a user other than the sender.
C10_SendRejected ==
    [][ \A u \in Users, data \in MessageCreates :
          (/\ last'.op = "send_message"
           /\ data.chat_id # None
           /\ \/ ChatById(data.chat_id) = {}
              \/ \E chat \in ChatById(data.chat_id) :
                     \/ u \notin { chat.user1_id, chat.user2_id }
                     \/ (chat.blocked_by # None /\ chat.blocked_by # u)
           /\ send_message(u, data))
          => /\ last'.status # "ok"
             /\ messages' = messages ]_vars

\* A participant's send was refused because the other participant blocked the
\* chat.
C10_Witness ==
    /\ last.op = "send_message"
    /\ last.status = "403"
    /\ last.detail = "You are blocked by the other user"
    /\ \E chat \in chats : chat.blocked_by # None

\* C11: while a block exists between the two participants of a chat, set by
\* either of them through the block action or held in the block registry, every
\* send into that chat is rejected and creates no Message, the blocker's own
\* sends included.
C11_BlockedChatRejectsSend ==
    [][ \A u \in Users, data \in MessageCreates :
          (/\ last'.op = "send_message"
           /\ data.chat_id # None
           /\ \E chat \in ChatById(data.chat_id) :
                  \/ chat.blocked_by # None
                  \/ is_blocked(chat.user1_id, chat.user2_id)
           /\ send_message(u, data))
          => /\ last'.status # "ok"
             /\ messages' = messages ]_vars

\* C12: an edit of a message whose is_deleted_for_all is true is rejected and
\* changes neither its content nor its edited_at; an edit by the sender of a
\* message that is not deleted for everyone succeeds and stores the new content,
\* however often the message was edited before.
C12_EditRejectsTombstone ==
    [][ \A m \in MessageIds, u \in Users, x \in Contents :
          (last'.op = "edit_message" /\ edit_message(m, u, x))
          => \A row \in MessageById(m) :
                 /\ row.is_deleted_for_all = TRUE
                    => /\ last'.status # "ok"
                       /\ \E after \in messages' : /\ after.id = m
                                                /\ after.content = row.content
                                                /\ after.edited_at = row.edited_at
                 /\ (row.is_deleted_for_all = FALSE /\ row.sender_id = u)
                    => /\ last'.status = "ok"
                       /\ \E after \in messages' : /\ after.id = m
                                                /\ after.content = x ]_vars

\* C13: is_deleted_for_all of a message becomes true only in a step of delete
\* for everyone or unsend that succeeds, both of which refuse any actor but the
\* sender with status 403 (Forbidden) and then change no row; and once it is
\* true it is true in every later state.
C13_TombstoneBySenderOnly ==
    [][ /\ \A m \in messages, n \in messages' :
              (n.id = m.id /\ m.is_deleted_for_all = TRUE)
              => n.is_deleted_for_all = TRUE
        /\ \A m \in messages, n \in messages' :
              (n.id = m.id /\ m.is_deleted_for_all = FALSE /\ n.is_deleted_for_all = TRUE)
              => /\ last'.status = "ok"
                 /\ \/ delete_message_query(m.id, m.sender_id, TRUE)
                    \/ unsend_message(m.id, m.sender_id)
        /\ \A m \in MessageIds, u \in Users :
              (/\ last'.op = "delete_message"
               /\ \E row \in MessageById(m) : row.sender_id # u
               /\ delete_message_query(m, u, TRUE))
              => /\ last'.status = "403"
                 /\ messages' = messages
                 /\ message_visibility' = message_visibility
        /\ \A m \in MessageIds, u \in Users :
              (/\ last'.op = "unsend_message"
               /\ \E row \in MessageById(m) : row.sender_id # u
               /\ unsend_message(m, u))
              => /\ last'.status = "403"
                 /\ messages' = messages ]_vars

\* A delete for everyone by a user who is not the sender was refused while a
\* message deleted for everyone was stored.
C13_Witness ==
    /\ last.op = "delete_message" /\ last.status = "403"
    /\ \E m \in messages : m.is_deleted_for_all = TRUE

\* C14: with one request at a time, delete(m, u, for_everyone = false) is
\* idempotent and MessageVisibility is append-only: no step removes or changes
\* a visibility row, a call that succeeds leaves exactly one row for (m, u),
\* and a call for a pair that has its row changes no table.
C14_HideIsIdempotent ==
    [][ /\ message_visibility \subseteq message_visibility'
        /\ \A v1, v2 \in message_visibility' :
              (v1.message_id = v2.message_id /\ v1.user_id = v2.user_id) => v1 = v2
        /\ \A r \in BagToSet(sessions) :
              (/\ last'.op = "delete_message" /\ last'.status = "ok"
               /\ delete_message_commit(r))
              => Cardinality({ v \in message_visibility' :
                                 v.message_id = r.id /\ v.user_id = r.user_id }) = 1
        /\ \A m \in MessageIds, u \in Users :
              (/\ last'.op = "delete_message"
               /\ HidesOf(m, u) # {}
               /\ delete_message_query(m, u, FALSE))
              => /\ last'.status = "ok"
                 /\ message_visibility' = message_visibility
                 /\ messages' = messages
                 /\ sessions' = sessions ]_vars

\* Two users have hidden messages for themselves, and the last delete for me
\* succeeded.
C14_Witness ==
    /\ last.op = "delete_message" /\ last.status = "ok"
    /\ sessions = EmptyBag
    /\ Cardinality(message_visibility) = MaxHides

\* C15: forward(original, sender, target) fails with status 403 (Forbidden)
\* and creates no Message when the sender is not a member of the target: not
\* one of the two participants of the target chat, or not a member of the
\* target group.
C15_ForwardRequiresMembership ==
    [][ \A m \in MessageIds, u \in Users :
          /\ \A c \in ChatIds :
                (/\ last'.op = "forward_message"
                 /\ \E chat \in ChatById(c) : u \notin Pair(chat)
                 /\ forward_message(m, u, c, None))
                => /\ last'.status # "ok"
                   /\ (MessageById(m) # {} => last'.status = "403")
                   /\ messages' = messages
          /\ \A g \in GroupIds :
                (/\ last'.op = "forward_message"
                 /\ << g, u >> \notin group_members
                 /\ forward_message(m, u, None, g))
                => /\ last'.status # "ok"
                   /\ (MessageById(m) # {} => last'.status = "403")
                   /\ messages' = messages ]_vars

C17_SendBroadcastsNewMessage ==
    [][ \A u \in Users, data \in MessageCreates :
          (/\ last'.op = "send_message" /\ last'.status = "ok"
           /\ data.chat_id \in ChatIds
           /\ send_message(u, data))
          => \A v \in chat_subscribers[data.chat_id] :
                 send_to_user(v) = "sent"
                 => \E d \in BagToSet(delivered') :
                        /\ d.websocket = active_connections[v]
                        /\ d.data.event = "new_message"
                        /\ d.data.chat_id = data.chat_id ]_vars

\* C18: the registry holds at most one socket per user.  connect(u, s2)
\* registers s2 for u in the place of whatever u was registered with and
\* touches no other user; a send to a user goes to the socket the user is
\* registered with and to no other; disconnect(u) leaves u without a socket.
C18_OneConnectionPerUser ==
    [][ /\ active_connections' \in [ Users -> Sockets \cup { None } ]
        /\ \A s \in Sockets :
              websocket_accepted(s)
              => /\ active_connections'[websockets[s].user_id] = s
                 /\ \A v \in Users \ { websockets[s].user_id } :
                        active_connections'[v] = active_connections[v]
        /\ delivered' # delivered
           => \A d \in BagToSet(delivered' (-) delivered) :
                  \E v \in chat_subscribers[d.data.chat_id] :
                      active_connections[v] = d.websocket
        /\ \A s \in Sockets :
              websocket_disconnect(s)
              => active_connections'[websockets[s].user_id] = None ]_vars

\* A user has connected twice; the second socket has replaced the first in the
\* registry and has got an event, and the first, still open, has got none.
C18_Witness ==
    \E s1, s2 \in Sockets :
        /\ s1 # s2
        /\ websockets[s1].user_id = websockets[s2].user_id
        /\ Sendable(s1) /\ Sendable(s2)
        /\ active_connections[websockets[s2].user_id] = s2
        /\ \E d \in BagToSet(delivered) : d.websocket = s2
        /\ \A d \in BagToSet(delivered) : d.websocket # s1

\* The events a client can ask to be broadcast.
Broadcastable == { "typing", "seen" }

\* What the coroutine of socket s broadcasts, or would broadcast if it got the
\* event for the chat now, and where its loop stands.
LoopData(s, event, chat_id) ==
    IF websockets[s].pc = "broadcast"
    THEN websockets[s].data
    ELSE [ n |-> broadcasts + 1, event |-> event, chat_id |-> chat_id,
           user_id |-> websockets[s].user_id ]

LoopSize(s, chat_id) ==
    IF websockets[s].pc = "broadcast"
    THEN websockets[s].size
    ELSE Cardinality(chat_subscribers[chat_id])

LoopRest(s, chat_id) ==
    IF websockets[s].pc = "broadcast"
    THEN chat_subscribers[chat_id] \ websockets[s].visited
    ELSE chat_subscribers[chat_id]

\* This step is a stretch of the loop of broadcast_to_chat(chat_id, event) in
\* the coroutine of socket s: the first, which begins with the receive_json
\* that returned the event, or a later one.
Loop(s, event, chat_id) ==
    \/ /\ websockets[s].pc = "broadcast"
       /\ websockets[s].data.event = event
       /\ websockets[s].data.chat_id = chat_id
       /\ broadcast_to_chat(s)
    \/ /\ websockets[s].pc = "receive"
       /\ broadcasts' = broadcasts + 1
       /\ websocket_receive(s, event, chat_id)

\* The broadcast of socket s ends in this step: its loop is done, or an
\* exception has left it.
BroadcastEnds(s, event, chat_id) ==
    /\ websockets'[s].pc # "broadcast"
    /\ Loop(s, event, chat_id)

\* The sockets of the users who are subscribed to the chat and have a live
\* connection.
LiveSubscribers(chat_id) ==
    { active_connections[v] :
        v \in { x \in chat_subscribers[chat_id] : send_to_user(x) = "sent" } }

\* How often the socket has got the data.
Copies(bag, websocket, data) ==
    LET d == [ websocket |-> websocket, data |-> data ]
    IN  IF d \in BagToSet(bag) THEN bag[d] ELSE 0

\* C19: when broadcast_to_chat(chat, event) ends, the event is exactly once on
\* the socket of every user who is subscribed to the chat and has a live
\* connection, and on no other socket; a turn of the loop for a user who has
\* no socket registered sends nothing and lets the loop go on.
C19_BroadcastExactlyOnce ==
    [][ \A s \in Sockets, event \in Broadcastable, chat_id \in ChatIds :
          /\ BroadcastEnds(s, event, chat_id)
             => \A t \in Sockets :
                    Copies(delivered', t, LoopData(s, event, chat_id))
                      = IF t \in LiveSubscribers(chat_id) THEN 1 ELSE 0
          /\ (/\ LoopRest(s, chat_id) # {}
              /\ \A v \in LoopRest(s, chat_id) : send_to_user(v) = "none"
              /\ LoopSize(s, chat_id) = Cardinality(chat_subscribers[chat_id])
              /\ Loop(s, event, chat_id))
             => /\ delivered' = delivered
                /\ websockets'[s].pc = "receive" ]_vars

\* C20: a send_json that fails on the socket of one subscriber during
\* broadcast_to_chat is swallowed: the coroutine that called the broadcast
\* stays in its loop and keeps its place in the registry, and when the
\* broadcast ends every other subscriber with a live connection has the event.
C20_DeadSocketIsSwallowed ==
    [][ \A s \in Sockets, event \in Broadcastable, chat_id \in ChatIds :
          (/\ LoopSize(s, chat_id) = Cardinality(chat_subscribers[chat_id])
           /\ Loop(s, event, chat_id))
          => /\ websockets'[s].pc \in { "broadcast", "receive" }
             /\ active_connections' = active_connections
             /\ websockets'[s].pc = "receive"
                => \A t \in LiveSubscribers(chat_id) :
                       Copies(delivered', t, LoopData(s, event, chat_id)) >= 1 ]_vars

\* C21: disconnect(u) changes the subscriber set of no chat, and a stale
\* subscriber is pruned lazily: after a send to a subscribed user has failed
\* during a broadcast, that user is no longer in the subscriber set of the chat.
C21_StaleSubscriberIsPruned ==
    [][ \A s \in Sockets :
          /\ websocket_disconnect(s) => chat_subscribers' = chat_subscribers
          /\ \A v \in Users, event \in Broadcastable, chat_id \in ChatIds :
                (/\ LoopSize(s, chat_id) = Cardinality(chat_subscribers[chat_id])
                 /\ LoopRest(s, chat_id) = { v }
                 /\ send_to_user(v) = "failed"
                 /\ Loop(s, event, chat_id))
                => v \notin chat_subscribers'[chat_id] ]_vars

\* C22: no operation of the registry fails because another coroutine has
\* changed a map in the meantime; in particular a broadcast that was suspended
\* in its loop over the subscriber set of a chat goes on, or ends, after a
\* join_chat or leave_chat on the same chat.
C22_BroadcastSurvivesJoin ==
    [][ \A s \in Sockets :
          (/\ websockets[s].pc = "broadcast"
           /\ Cardinality(chat_subscribers[websockets[s].data.chat_id])
                # websockets[s].size
           /\ broadcast_to_chat(s))
          => websockets'[s].pc \in { "broadcast", "receive" } ]_vars

\* The operations of the message engine.
MessageOps ==
    { "send_message", "edit_message", "delete_message", "unsend_message",
      "react_to_message", "forward_message" }

\* C23: an operation of the message engine (send, edit, delete, unsend, react,
\* forward) that ends in an error leaves the chats, the messages, the
\* visibility rows and the reactions as they were.
C23_ErrorChangesNothing ==
    [][ (last'.op \in MessageOps /\ last'.status # "ok")
        => /\ chats' = chats
           /\ messages' = messages
           /\ message_visibility' = message_visibility
           /\ reactions' = reactions ]_vars

\* A forward into the group by a user who is not a member of it has been
\* refused while a chat, a message, a hide and a reaction were stored.
C23_Witness ==
    /\ last.op = "forward_message" /\ last.status = "403"
    /\ chats # {} /\ messages # {} /\ message_visibility # {} /\ reactions # {}

\* C24, as the specification states it: the listing of a chat leaves out a
\* message that is deleted for everyone, and the listing of a group still
\* returns such a message to a viewer who has not hidden it.
C24_TombstonesAsymmetric ==
    \A m \in messages, viewer \in Users :
        m.is_deleted_for_all = TRUE
        => /\ m.chat_id # None
              => m.id \notin Ids(Rows(get_filtered_messages(
                                        m.chat_id, None, viewer, << >>, "")))
           /\ (m.group_id # None /\ HidesOf(m.id, viewer) = {})
              => m.id \in Ids(Rows(get_filtered_messages(
                                     None, m.group_id, viewer, << >>, "")))

\* C24, amended: get_filtered_messages leaves out a message that is deleted
\* for everyone for a chat and for a group alike; the row of a group is still
\* returned by the route get_group_messages, to every member of the group.
C24_FilteredListingHidesTombstones ==
    \A m \in messages, viewer \in Users :
        m.is_deleted_for_all = TRUE
        => /\ m.id \notin Ids(Rows(get_filtered_messages(
                                     m.chat_id, m.group_id, viewer, << >>, "")))
           /\ (m.group_id # None /\ << m.group_id, viewer >> \in group_members)
              => m.id \in Ids(Rows(get_group_messages(m.group_id, viewer)))

\* A message of the chat and a message of the group are both deleted for
\* everyone.
C24_Witness ==
    /\ \E m \in messages : m.is_deleted_for_all = TRUE /\ m.chat_id # None
    /\ \E m \in messages : m.is_deleted_for_all = TRUE /\ m.group_id # None

\* C25: a message that is deleted for everyone stays as it is: no later
\* operation (edit, unsend, delete, react, forward) changes its content, its
\* media_url or its edited_at.
C25_TombstoneIsTerminal ==
    [][ \A m \in messages :
          m.is_deleted_for_all = TRUE
          => \A n \in messages' :
                 n.id = m.id => /\ n.content = m.content
                                /\ n.media_url = m.media_url
                                /\ n.edited_at = m.edited_at ]_vars

\* C26: when a user has connected again, so that socket s2 has replaced socket
\* s1 in the registry, and the handler of s1 then sees the disconnect of s1,
\* s2 stays registered for the user.
C26_ReconnectSurvivesOldDisconnect ==
    [][ \A s1, s2 \in Sockets :
          (/\ s1 # s2
           /\ websockets[s2].user_id \in Users
           /\ websockets[s1].user_id = websockets[s2].user_id
           /\ active_connections[websockets[s2].user_id] = s2
           /\ websocket_disconnect(s1))
          => active_connections'[websockets[s2].user_id] = s2 ]_vars

\* The users of the conversation that owns the message: the two participants
\* of its chat, or the members of its group.
Audience(m) ==
    IF m.chat_id # None
    THEN UNION { { chat.user1_id, chat.user2_id } : chat \in ChatById(m.chat_id) }
    ELSE { u \in Users : << m.group_id, u >> \in group_members }

\* C27: a MessageVisibility row or a Reaction is only ever created for a user
\* who is a participant of the chat, or a member of the group, that owns the
\* message.
C27_OnlyParticipantsHideOrReact ==
    [][ /\ \A h \in message_visibility' \ message_visibility :
              \A m \in MessageById(h.message_id) : h.user_id \in Audience(m)
        /\ \A x \in reactions' \ reactions :
              \A m \in MessageById(x.message_id) : x.user_id \in Audience(m) ]_vars

\* The participants of the chat.
Participants(chat_id) ==
    UNION { { chat.user1_id, chat.user2_id } : chat \in ChatById(chat_id) }

\* C28: the live events of a chat go to its participants only: join_chat
\* subscribes a user to a chat only when the user is a participant of it, and
\* an event is put on the sockets of the subscribers of a chat only when the
\* socket it came from is that of a participant.
C28_OnlyParticipantsSubscribe ==
    [][ /\ \A c \in ChatIds :
              chat_subscribers'[c] \ chat_subscribers[c] \subseteq Participants(c)
        /\ \A d \in BagToSet(delivered' (-) delivered) :
              d.data.user_id \in Participants(d.data.chat_id) ]_vars

\* C29: a forward copies the content of a message only when the user who
\* forwards is a participant of the chat, or a member of the group, of the
\* original, and the original is not deleted for everyone.
C29_ForwardReadsOnlyReadable ==
    [][ \A m \in MessageIds, u \in Users,
           c \in ChatIds \cup { NoSuchChat, None }, g \in GroupIds \cup { None } :
          (/\ last'.op = "forward_message" /\ last'.status = "ok"
           /\ forward_message(m, u, c, g))
          => \A original \in MessageById(m) :
                 /\ u \in Audience(original)
                 /\ original.is_deleted_for_all = FALSE ]_vars

\* C30: a block of a chat is lifted by the user who set it and by nobody else:
\* while blocked_by is user A, no step of the other participant makes it
\* anything else, and the other participant's sends are refused.
C30_OnlyBlockerLiftsBlock ==
    [][ \A chat \in chats, u \in Users, a \in { "accept", "decline", "block", "mute" } :
          (/\ chat.blocked_by # None
           /\ u # chat.blocked_by
           /\ last'.op = "handle_chat_request"
           /\ handle_chat_request(chat.id, u, a))
          => \A after \in chats' :
                 after.id = chat.id => after.blocked_by = chat.blocked_by ]_vars

====
